---- MODULE Spec2Model ----
(***************************************************************************)
(* Model of the KAgent API client (src/src/lib/kagent.ts) and of the chat  *)
(* state of the App component (src/src/App.tsx).                           *)
(*                                                                         *)
(* JSON values are tagged records, strings that the code inspects          *)
(* (startsWith, includes, split, indexOf) are sequences of tokens, and     *)
(* every await of the code is a point where other steps may interleave.    *)
(***************************************************************************)
EXTENDS Integers, Sequences, FiniteSets, TLC

VARIABLES
    env,              \* runtime environment: [tauri, localhost]
    config,           \* KagentAPI.config: [protocol, host, port]
    method,           \* the public method being called, "none" before the call
    args,             \* its arguments
    pc,               \* position of the call: "idle", an await, or "done"
    pending,          \* HTTP requests in flight
    reqLog,           \* every transport use: [req, via, by]
    nreq,             \* number of requests started by the call
    locals,           \* local variables of the method across its awaits
    outcome,          \* the promise of the call: [kind, value]
    body,             \* the event stream the A2A server answers with
    inputs,           \* what sendMessage is called with and what the session lookup may
                      \* answer: [ids, envelopes]
    connectors,       \* App state: the connectors, each [id, agents, status]
    activeConnector,
    currentSession,
    selectedAgent,
    chatMessages,
    isSendingMessage,
    sends,            \* calls of the App awaiting the API client
    clock             \* counter standing for Date.now() in the App

apiVars == <<env, config, method, args, pc, pending, reqLog, nreq, locals, outcome, body, inputs>>
appVars == <<connectors, activeConnector, currentSession, selectedAgent, chatMessages, isSendingMessage, sends, clock>>
vars == <<env, config, method, args, pc, pending, reqLog, nreq, locals, outcome, body, inputs,
          connectors, activeConnector, currentSession, selectedAgent, chatMessages,
          isSendingMessage, sends, clock>>

(***************************************************************************)
(* Bounds of the model                                                     *)
(***************************************************************************)
MaxItems == 2        \* longest agent list in a response
MaxLines == 4        \* lines in the event stream
MaxChunk == 3        \* tokens in one chunk of the stream
MaxSends == 2        \* handleSendMessage calls in one run
MaxAdds == 2         \* addConnector calls in one run

(***************************************************************************)
(* JavaScript values                                                       *)
(***************************************************************************)
Undefined == [t |-> "undefined"]
Null == [t |-> "null"]
Str(s) == [t |-> "string", v |-> s]     \* s: the string as a sequence of tokens
Num(n) == [t |-> "number", v |-> n]
Bool(b) == [t |-> "boolean", v |-> b]
Arr(s) == [t |-> "array", v |-> s]
Obj(f) == [t |-> "object", v |-> f]
EmptyObj == Obj(<<>>)

IsArray(x) == x.t = "array"
Nullish(x) == x.t \in {"undefined", "null"}
Truthy(x) ==
    CASE x.t \in {"undefined", "null"} -> FALSE
      [] x.t = "string" -> x.v # <<>>
      [] x.t = "number" -> x.v # 0
      [] x.t = "boolean" -> x.v
      [] OTHER -> TRUE

\* x.k for a non-nullish x (x.k on null or undefined throws a TypeError,
\* which the callers test for before they use Get)
Get(x, k) == IF x.t = "object" /\ k \in DOMAIN x.v THEN x.v[k] ELSE Undefined
\* x?.k
OptGet(x, k) == IF Nullish(x) THEN Undefined ELSE Get(x, k)
\* a === b, for primitive values
StrictEq(a, b) == a.t = b.t /\ a = b
\* a || b
OrElse(a, b) == IF Truthy(a) THEN a ELSE b

Err(name, message) == [name |-> name, message |-> message]
TypeError == Err("TypeError", <<"Cannot read properties of null">>)
\* `${error}` and String(error)
ErrorText(e) == <<e.name, ": ">> \o e.message

Resolve(v) == [kind |-> "resolve", value |-> v]
Reject(e) == [kind |-> "reject", value |-> e]

(***************************************************************************)
(* request(): one transport per call                                       *)
(***************************************************************************)
Envs == [tauri : BOOLEAN, localhost : BOOLEAN]

\* a variant: the browser transport whatever the environment
selectTransportAlwaysFetch(e) == "fetch"

selectTransport(e) == IF e.tauri THEN "invoke" ELSE "fetch"

Statuses == {"404", "500"}

\* what the native bridge may answer
InvokeOutcomes(values) ==
    {[kind |-> "value", value |-> v] : v \in values}
    \cup {[kind |-> "error", text |-> t] : t \in {<<"connection refused">>, <<"HTTP ", "404">>}}

\* what the browser fetch may answer
FetchOutcomes(values) ==
    {[kind |-> "value", value |-> v] : v \in values}
    \cup {[kind |-> "neterr"], [kind |-> "badjson"]}
    \cup {[kind |-> "status", status |-> s, text |-> t] : s \in Statuses, t \in {<<"not found">>, <<"upstream ", "404">>}}

TransportOutcomes(via, values) ==
    IF via = "invoke" THEN InvokeOutcomes(values) ELSE FetchOutcomes(values)

\* a variant that rethrows the failure as it is
NetworkErrorUnwrapped(text) == Err("Error", text)

NetworkError(text) == Err("Error", <<"Network error: ">> \o text)

requestResult(via, out) ==
    CASE out.kind = "value" -> Resolve(out.value)
      [] out.kind = "error" -> Reject(NetworkError(out.text))
      [] out.kind = "neterr" -> Reject(NetworkError(<<"Failed to fetch">>))
      [] out.kind = "badjson" -> Reject(NetworkError(<<"Unexpected token < in JSON">>))
      [] out.kind = "status" ->
            Reject(NetworkError(<<"HTTP error! status: ", out.status, ", message: ">> \o out.text))

(***************************************************************************)
(* Configuration and URLs                                                  *)
(***************************************************************************)
\* host names; a text is cut into tokens so that `/api` is always "/" then "api"
Configs == [protocol : {"http", "https", "ws"}, host : {<<"localhost">>, <<"api", ".example">>}, port : {"8083"}]
DefaultConfig == [protocol |-> "http", host |-> <<"localhost">>, port |-> "8083"]

\* this.baseUrl, as the constructor and updateConfig build it
apiBaseUrl(c) == <<c.protocol, ":", "/", "/">> \o c.host \o <<":", c.port, "/", "api">>

KhookBaseUrl == <<"http", ":", "/", "/", "localhost", ":", "8082">>

\* a variant that addresses the default origin whatever the configuration
requestBaseUrlDefaultOrigin(e, c) ==
    IF e.tauri THEN apiBaseUrl(DefaultConfig)
    ELSE IF e.localhost THEN <<"/api">>
    ELSE apiBaseUrl(DefaultConfig)

\* the base URL request() chooses when no custom base URL is given
requestBaseUrl(e, c) ==
    IF e.tauri THEN apiBaseUrl(c)
    ELSE IF e.localhost THEN <<"/api">>
    ELSE apiBaseUrl(c)

requestUrl(e, c, endpoint, customBaseUrl) ==
    IF customBaseUrl # <<>> THEN customBaseUrl \o endpoint
    ELSE requestBaseUrl(e, c) \o endpoint \o <<"?user_id=", "admin@kagent.dev">>

\* the request record put in flight by request() and by the A2A fetch
NewRequest(id, via, by, url) == [id |-> id, via |-> via, by |-> by, url |-> url]

(***************************************************************************)
(* getAgents                                                               *)
(***************************************************************************)
\* a variant: `items` tested before `data`
agentsArrayItemsFirst(response) ==
    IF IsArray(response) THEN [kind |-> "list", v |-> response.v]
    ELSE IF Nullish(response) THEN [kind |-> "throw"]
    ELSE IF Truthy(Get(response, "items")) /\ IsArray(Get(response, "items"))
        THEN [kind |-> "list", v |-> Get(response, "items").v]
    ELSE IF Truthy(Get(response, "data")) /\ IsArray(Get(response, "data"))
        THEN [kind |-> "list", v |-> Get(response, "data").v]
    ELSE [kind |-> "malformed"]

\* the envelope shapes, in the order the code tests them
agentsArray(response) ==
    IF IsArray(response) THEN [kind |-> "list", v |-> response.v]
    ELSE IF Nullish(response) THEN [kind |-> "throw"]
    ELSE IF Truthy(Get(response, "data")) /\ IsArray(Get(response, "data"))
        THEN [kind |-> "list", v |-> Get(response, "data").v]
    ELSE IF Truthy(Get(response, "items")) /\ IsArray(Get(response, "items"))
        THEN [kind |-> "list", v |-> Get(response, "items").v]
    ELSE [kind |-> "malformed"]

agentOf(item) == OrElse(Get(item, "agent"), item)
conditionsOf(item) == Get(OrElse(Get(agentOf(item), "status"), EmptyObj), "conditions")

\* status.conditions?.some(c => c.type === type && c.status === 'True')
someCondition(item, type) ==
    LET cs == conditionsOf(item) IN
    IF Nullish(cs) THEN Undefined
    ELSE Bool(\E i \in DOMAIN cs.v :
                /\ StrictEq(Get(cs.v[i], "type"), Str(<<type>>))
                /\ StrictEq(Get(cs.v[i], "status"), Str(<<"True">>)))

\* whether conditions?.some(...) throws: some is no function, or an entry is nullish
someThrows(item) ==
    LET cs == conditionsOf(item) IN
    /\ ~Nullish(cs)
    /\ \/ ~IsArray(cs)
       \/ \E i \in DOMAIN cs.v : Nullish(cs.v[i])

deploymentReady(item) == StrictEq(Get(item, "deploymentReady"), Bool(TRUE))

\* whether the map callback throws a TypeError on this item
itemThrows(item) ==
    \/ Nullish(item)
    \/ someThrows(item)
         \* `ready` skips some() when deploymentReady is true, `accepted` never does

acceptedOf(item) == Truthy(OrElse(someCondition(item, "Accepted"), Bool(TRUE)))

normalizeAgent(item) ==
    LET agent == agentOf(item)
        metadata == OrElse(Get(agent, "metadata"), EmptyObj)
        spec == OrElse(Get(agent, "spec"), EmptyObj)
    IN [id |-> OrElse(OrElse(Get(agent, "id"), Get(metadata, "name")),
                      OrElse(Get(agent, "name"), Str(<<"unknown">>))),
        name |-> OrElse(OrElse(Get(metadata, "name"), Get(agent, "name")), Str(<<"Unknown">>)),
        namespace |-> OrElse(OrElse(Get(metadata, "namespace"), Get(agent, "namespace")),
                             Str(<<"kagent">>)),
        type |-> OrElse(OrElse(Get(spec, "type"), Get(agent, "type")), Str(<<"Declarative">>)),
        ready |-> \/ deploymentReady(item)
                  \/ Truthy(someCondition(item, "Ready")),
        accepted |-> acceptedOf(item),
        description |-> OrElse(OrElse(Get(spec, "description"), Get(agent, "description")),
                               Str(<<>>))]

\* the catch block of getAgents rethrows
getAgentsCatch(error) == Reject(error)

getAgents(res) ==
    IF res.kind = "reject" THEN getAgentsCatch(res.value)
    ELSE LET a == agentsArray(res.value) IN
         CASE a.kind = "throw" -> getAgentsCatch(TypeError)
           [] a.kind = "malformed" -> Resolve(<<>>)
           [] OTHER ->
                IF \E i \in DOMAIN a.v : itemThrows(a.v[i])
                THEN getAgentsCatch(TypeError)
                ELSE Resolve([i \in DOMAIN a.v |-> normalizeAgent(a.v[i])])

\* agent items a server may list
Cond(type, status) == Obj([type |-> Str(<<type>>), status |-> Str(<<status>>)])
AgentItems ==
    { Obj([name |-> Str(<<"a1">>), namespace |-> Str(<<"dev">>)]),
      Obj([agent |-> Obj([metadata |-> Obj([name |-> Str(<<"a2">>)]),
                          status |-> Obj([conditions |-> Arr(<<Cond("Accepted", "False"),
                                                              Cond("Ready", "True")>>)])]),
           deploymentReady |-> Bool(FALSE)]),
      Obj([agent |-> Obj([metadata |-> Obj([name |-> Str(<<"a3">>), namespace |-> Str(<<"ops">>)]),
                          spec |-> Obj([type |-> Str(<<"BYO">>)]),
                          status |-> Obj([conditions |-> Arr(<<Cond("Accepted", "True")>>)])]),
           deploymentReady |-> Bool(TRUE)]),
      Str(<<"a4">>) }

RECURSIVE ListsUpTo(_, _)
ListsUpTo(S, n) ==
    IF n = 0 THEN {<<>>}
    ELSE LET shorter == ListsUpTo(S, n - 1)
         IN shorter \cup {Append(l, x) : l \in shorter, x \in S}

AgentLists == ListsUpTo(AgentItems, MaxItems)
ShortAgentLists == ListsUpTo(AgentItems, 1)

WellFormedAgentResponses ==
    {Arr(l) : l \in AgentLists}
    \cup {Obj([data |-> Arr(l)]) : l \in AgentLists}
    \cup {Obj([items |-> Arr(l)]) : l \in AgentLists}
    \cup {Obj([data |-> Arr(l), items |-> Arr(m)]) : l \in ShortAgentLists, m \in ShortAgentLists}
    \cup {Obj([data |-> d, items |-> Arr(l)]) :
            d \in {Str(<<"x">>), Null, EmptyObj}, l \in ShortAgentLists}

MalformedAgentResponses ==
    { Null, Num(5), Str(<<"oops">>), Str(<<>>), Bool(TRUE), Bool(FALSE), EmptyObj,
      Obj([data |-> Str(<<"x">>)]), Obj([data |-> EmptyObj]), Obj([data |-> Null]),
      Obj([items |-> Num(1)]), Obj([items |-> EmptyObj]),
      Obj([data |-> Null, items |-> Str(<<"y">>)]),
      Obj([agents |-> Arr(<<Str(<<"a4">>)>>)]) }


(***************************************************************************)
(* Methods that await one request                                          *)
(***************************************************************************)
ListGetters ==
    {"getToolServers", "getMemories", "getFeedback", "getSessionEvents", "getSessionTasks",
     "getSessionsForAgent", "getModelConfigs", "getProviders", "getModels", "getNamespaces",
     "getCheckpoints", "getSessions"}
\* return response.data, rethrow (createSession has no try at all)
DataCallers ==
    {"createToolServer", "createMemory", "getTask", "createTask", "getModelConfig",
     "createModelConfig", "updateModelConfig", "createSession"}
\* return nothing, rethrow
VoidCallers ==
    {"deleteToolServer", "deleteMemory", "deleteTask", "submitFeedback", "addEventToSession",
     "deleteModelConfig", "saveCheckpoint", "deleteCheckpoint"}
BoolCallers == {"ping", "testConnection"}
\* khook methods: custom base URL, errors wrapped once more
HookCallers ==
    {"getHooks", "getHook", "createHook", "updateHook", "deleteHook", "getAlerts",
     "getAlertSummary", "acknowledgeAlert", "resolveAlert"}
SingleMethods == ListGetters \cup DataCallers \cup VoidCallers \cup BoolCallers \cup HookCallers

EmptyList == Arr(<<>>)

\* a variant: the catch block rethrows, as getAgents does
listGetterCatchRethrow(error) == Reject(error)

\* the catch block of the list getters returns []
listGetterCatch(error) == Resolve(EmptyList)

\* response.data || []   and, for getSessionEvents, response.data?.events || []
listGetter(m, res) ==
    IF res.kind = "reject" THEN listGetterCatch(res.value)
    ELSE IF Nullish(res.value) THEN listGetterCatch(TypeError)
    ELSE IF m = "getSessionEvents"
        THEN Resolve(OrElse(OptGet(Get(res.value, "data"), "events"), EmptyList))
    ELSE Resolve(OrElse(Get(res.value, "data"), EmptyList))

dataCaller(res) ==
    IF res.kind = "reject" THEN Reject(res.value)
    ELSE IF Nullish(res.value) THEN Reject(TypeError)
    ELSE Resolve(Get(res.value, "data"))

voidCaller(res) == IF res.kind = "reject" THEN Reject(res.value) ELSE Resolve(Undefined)

boolCaller(res) == Resolve(Bool(res.kind = "resolve"))

\* throw new Error(`Network error: ${error}`)
hookCatch(error) == Reject(NetworkError(ErrorText(error)))


hookCaller(m, res) ==
    IF res.kind = "reject" THEN hookCatch(res.value)
    ELSE CASE m = "getHooks" ->
                IF Nullish(res.value) THEN hookCatch(TypeError)
                ELSE Resolve(OrElse(Get(res.value, "items"), EmptyList))
           [] m = "getAlerts" -> Resolve(OrElse(OptGet(res.value, "data"), EmptyList))
           [] m = "getAlertSummary" -> Resolve(OrElse(OptGet(res.value, "data"), Obj([total |-> Num(0), pending |-> Num(0)])))
           [] m \in {"getHook", "createHook", "updateHook"} -> Resolve(res.value)
           [] OTHER -> Resolve(Undefined)

singleResult(m, res) ==
    CASE m \in ListGetters -> listGetter(m, res)
      [] m \in DataCallers -> dataCaller(res)
      [] m \in VoidCallers -> voidCaller(res)
      [] m \in BoolCallers -> boolCaller(res)
      [] m \in HookCallers -> hookCaller(m, res)

GenericResponses ==
    { Null, EmptyObj, Str(<<"ok">>),
      Obj([data |-> Arr(<<Str(<<"x">>)>>)]),
      Obj([data |-> Arr(<<>>)]),
      Obj([data |-> Null]),
      Obj([data |-> Obj([events |-> Arr(<<Str(<<"e1">>)>>)])]),
      Obj([data |-> Obj([session |-> Str(<<"s">>)])]),
      Obj([items |-> Arr(<<Str(<<"h">>)>>)]) }

(***************************************************************************)
(* getSession                                                              *)
(***************************************************************************)
MockPrefix == "mock-session-"
SessionIds == {<<"sess-1">>, <<MockPrefix, "17">>}
\* sessionId.startsWith('mock-session-')
isMockSessionId(id) == Len(id) >= 1 /\ id[1] = MockPrefix
\* error.message.includes('404')
includes404(message) == \E i \in DOMAIN message : message[i] = "404"

UserId == Str(<<"admin@kagent.dev">>)

mockSessionObject(id) ==
    Obj([id |-> Str(id), user_id |-> UserId, agent_ref |-> Str(<<"k8s-agent">>),
         name |-> Str(<<"Mock Session">>)])

getSessionCatch(id, error) ==
    IF isMockSessionId(id) THEN Resolve(mockSessionObject(id))
    ELSE IF includes404(error.message) THEN Resolve(Null)
    ELSE Reject(error)

getSession(id, res) ==
    IF res.kind = "reject" THEN getSessionCatch(id, res.value)
    ELSE IF Nullish(res.value) THEN getSessionCatch(id, TypeError)
    ELSE LET data == Get(res.value, "data") IN
         IF Truthy(data) /\ Truthy(Get(data, "session")) THEN Resolve(Get(data, "session"))
         ELSE IF Truthy(data) /\ Truthy(Get(data, "id")) THEN Resolve(data)
         ELSE Resolve(Null)

SessionObject(id, agentId) ==
    Obj([id |-> Str(id), user_id |-> UserId, agent_ref |-> Str(<<"kagent/", "k8s-agent">>),
         agent_id |-> Str(agentId)])
Sessions(id) == {SessionObject(id, a) : a \in {<<"kagent", "__NS__", "k8s", "_", "agent">>,
                                                <<"my", "_", "ns", "__NS__", "a", "_", "b", "_", "c">>,
                                                <<"helm", "_", "agent">>,
                                                <<"a", "__NS__", "b", "__NS__", "c", "_", "d">>,
                                                <<>>}}
                 \cup {Obj([id |-> Str(id), user_id |-> UserId])}

SessionResponses(id) ==
    {Obj([data |-> Obj([session |-> s, events |-> Arr(<<>>)])]) : s \in Sessions(id)}
    \cup {Obj([data |-> s]) : s \in Sessions(id)}
    \cup {Obj([data |-> EmptyObj]), EmptyObj, Null}

(***************************************************************************)
(* Endpoints the public methods pass to request()                          *)
(***************************************************************************)
sessionEndpoint(id) == <<"/sessions", "/">> \o id
sessionTasksEndpoint(id) == sessionEndpoint(id) \o <<"/tasks">>

Endpoint(m) ==
    CASE m \in {"getToolServers", "createToolServer"} -> <<"/toolservers">>
      [] m = "deleteToolServer" -> <<"/toolservers", "/", "ns", "/", "name">>
      [] m \in {"getMemories", "createMemory"} -> <<"/memories">>
      [] m = "deleteMemory" -> <<"/memories", "/", "ns", "/", "name">>
      [] m \in {"getTask", "deleteTask"} -> <<"/tasks", "/", "t1">>
      [] m = "createTask" -> <<"/tasks">>
      [] m \in {"submitFeedback", "getFeedback"} -> <<"/feedback">>
      [] m = "getSessionTasks" -> sessionTasksEndpoint(<<"sess-1">>)
      [] m = "addEventToSession" -> <<"/sessions", "/", "sess-1", "/events">>
      [] m = "getSessionsForAgent" -> <<"/sessions", "/agent", "/", "ns", "/", "name">>
      [] m \in {"getModelConfigs", "createModelConfig"} -> <<"/modelconfigs">>
      [] m \in {"getModelConfig", "updateModelConfig", "deleteModelConfig"} ->
            <<"/modelconfigs", "/", "ns", "/", "name">>
      [] m = "getProviders" -> <<"/providers", "/models">>
      [] m = "getModels" -> <<"/models">>
      [] m = "getNamespaces" -> <<"/namespaces">>
      [] m \in {"saveCheckpoint", "getCheckpoints"} -> <<"/langgraph", "/checkpoints">>
      [] m = "deleteCheckpoint" -> <<"/langgraph", "/checkpoints", "/", "thread">>
      [] m \in {"getSessions", "createSession", "testConnection"} -> <<"/sessions">>
      [] m = "ping" -> <<"/health">>
      [] m = "getAgents" -> <<"/agents">>
      [] m \in {"getHooks", "createHook"} -> <<"/api", "/hooks">>
      [] m \in {"getHook", "updateHook", "deleteHook"} -> <<"/api", "/hooks", "/", "ns", "/", "name">>
      [] m = "getAlerts" -> <<"/api", "/alerts">>
      [] m = "getAlertSummary" -> <<"/api", "/alerts", "/summary">>
      [] m = "acknowledgeAlert" -> <<"/api", "/alerts", "/", "a1", "/acknowledge">>
      [] m = "resolveAlert" -> <<"/api", "/alerts", "/", "a1", "/resolve">>

\* getSessionEvents: the session path, plus ?limit=..&after=.. when given
sessionEventsEndpoint(id, limit, after) ==
    LET params == (IF limit # <<>> THEN <<"limit=">> \o limit ELSE <<>>)
                  \o (IF limit # <<>> /\ after # <<>> THEN <<"&">> ELSE <<>>)
                  \o (IF after # <<>> THEN <<"after=">> \o after ELSE <<>>)
    IN sessionEndpoint(id) \o (IF params # <<>> THEN <<"?">> \o params ELSE <<>>)

\* the custom base URL a method passes to request(), <<>> for none
CustomBaseUrl(e, m) ==
    IF m \notin HookCallers THEN <<>>
    ELSE IF m = "getHook" /\ e.localhost THEN <<"/khook-api">>
    ELSE KhookBaseUrl

\* request(): the k-th request of the call, on the transport of the environment
startRequest(k, endpoint, customBaseUrl) ==
    NewRequest(k, selectTransport(env), "request", requestUrl(env, config, endpoint, customBaseUrl))

(***************************************************************************)
(* The call of one public method, from its call to its promise settling    *)
(***************************************************************************)
Begin(m, a, requests, position, loc) ==
    /\ pc = "idle"
    /\ method' = m
    /\ args' = a
    /\ pending' = {requests[i] : i \in DOMAIN requests}
    /\ reqLog' = reqLog \o requests
    /\ nreq' = nreq + Len(requests)
    /\ pc' = position
    /\ locals' = loc
    /\ UNCHANGED <<env, config, body, inputs, appVars>>

\* the promise settles; the call leaves nothing in flight
Settle(r, result, loc) ==
    /\ pending' = pending \ {r}
    /\ outcome' = result
    /\ locals' = loc
    /\ pc' = "done"
    /\ UNCHANGED <<env, config, method, args, reqLog, nreq, body, inputs, appVars>>

CallSingle ==
    \E m \in SingleMethods \ {"getSessionEvents"} :
        /\ Begin(m, <<>>, <<startRequest(1, Endpoint(m), CustomBaseUrl(env, m))>>, "await", <<>>)
        /\ outcome' = outcome

CallGetSessionEvents ==
    \E id \in SessionIds, limit \in {<<>>, <<"10">>}, after \in {<<>>, <<"e7">>} :
        /\ Begin("getSessionEvents", [sessionId |-> id, limit |-> limit, after |-> after],
                 <<startRequest(1, sessionEventsEndpoint(id, limit, after), <<>>)>>, "await", <<>>)
        /\ outcome' = outcome

CompleteSingle ==
    /\ pc = "await"
    /\ method \in SingleMethods
    /\ \E r \in pending : \E out \in TransportOutcomes(r.via, GenericResponses) :
        LET res == requestResult(r.via, out)
        IN Settle(r, singleResult(method, res), [res |-> res, out |-> out])

CallGetAgents ==
    /\ Begin("getAgents", <<>>, <<startRequest(1, Endpoint("getAgents"), <<>>)>>, "await", <<>>)
    /\ outcome' = outcome

CompleteGetAgents ==
    /\ pc = "await"
    /\ method = "getAgents"
    /\ \E r \in pending : \E out \in TransportOutcomes(r.via, (WellFormedAgentResponses \cup MalformedAgentResponses)) :
        LET res == requestResult(r.via, out)
        IN Settle(r, getAgents(res), [res |-> res])

CallGetSession ==
    \E id \in SessionIds :
        /\ Begin("getSession", [sessionId |-> id], <<startRequest(1, sessionEndpoint(id), <<>>)>>,
                 "await", <<>>)
        /\ outcome' = outcome

CompleteGetSession ==
    /\ pc = "await"
    /\ method = "getSession"
    /\ \E r \in pending : \E out \in TransportOutcomes(r.via, SessionResponses(args.sessionId)) :
        LET res == requestResult(r.via, out)
        IN Settle(r, getSession(args.sessionId, res), [res |-> res])

\* getSessionMessages issues no request
CallGetSessionMessages ==
    /\ pc = "idle"
    /\ method' = "getSessionMessages"
    /\ pc' = "done"
    /\ outcome' = Resolve(EmptyList)
    /\ UNCHANGED <<env, config, args, pending, reqLog, nreq, locals, body, inputs, appVars>>

(***************************************************************************)
(* getSessionAnalytics: Promise.all of two list getters, then getSession   *)
(***************************************************************************)
\* a variant that does not wait for the two lists before it asks for the session
analyticsFirstRequestsWithSession(id) ==
    <<startRequest(1, sessionEventsEndpoint(id, <<>>, <<>>), <<>>),
      startRequest(2, sessionTasksEndpoint(id), <<>>),
      startRequest(3, sessionEndpoint(id), <<>>)>>

\* the requests the call starts before its first await
analyticsFirstRequests(id) ==
    <<startRequest(1, sessionEventsEndpoint(id, <<>>, <<>>), <<>>),
      startRequest(2, sessionTasksEndpoint(id), <<>>)>>

sessionAnalytics(id, events, tasks, sess) ==
    IF sess.kind = "reject" THEN Reject(sess.value)
    ELSE IF ~Truthy(sess.value) THEN Reject(Err("Error", <<"Session not found">>))
    ELSE IF ~IsArray(tasks) THEN Reject(TypeError)       \* tasks.reduce is not a function
    ELSE Resolve([sessionId |-> id,
                  totalMessages |-> IF IsArray(events) THEN Len(events.v) ELSE 0])

CallGetSessionAnalytics ==
    \E id \in SessionIds :
        /\ Begin("getSessionAnalytics", [sessionId |-> id], analyticsFirstRequests(id),
                 "awaitAll", [events |-> Undefined, tasks |-> Undefined])
        /\ outcome' = outcome

\* one of the two list requests completes; after the second one getSession starts
CompleteAnalyticsList ==
    /\ pc = "awaitAll"
    /\ \E r \in pending : r.id \in {1, 2} /\ \E out \in TransportOutcomes(r.via, GenericResponses) :
        LET res == requestResult(r.via, out)
            list == IF r.id = 1 THEN listGetter("getSessionEvents", res).value
                    ELSE listGetter("getSessionTasks", res).value
            loc == IF r.id = 1 THEN [locals EXCEPT !.events = list]
                   ELSE [locals EXCEPT !.tasks = list]
            rest == {q \in pending \ {r} : q.id \in {1, 2}}
            next == startRequest(nreq + 1, sessionEndpoint(args.sessionId), <<>>)
        IN /\ locals' = loc
           /\ IF rest = {}
              THEN /\ pending' = (pending \ {r}) \cup {next}
                   /\ reqLog' = Append(reqLog, next)
                   /\ nreq' = nreq + 1
                   /\ pc' = "awaitSession"
              ELSE /\ pending' = pending \ {r}
                   /\ UNCHANGED <<reqLog, nreq, pc>>
           /\ UNCHANGED <<env, config, method, args, outcome, body, inputs, appVars>>

CompleteAnalyticsSession ==
    /\ method = "getSessionAnalytics"
    /\ \E r \in pending : r.id > 2 /\ \E out \in TransportOutcomes(r.via, SessionResponses(args.sessionId)) :
        LET res == requestResult(r.via, out)
        IN /\ pc = "awaitSession"
           /\ Settle(r, sessionAnalytics(args.sessionId, locals.events, locals.tasks,
                                         getSession(args.sessionId, res)), locals)

(***************************************************************************)
(* createSessionWithName                                                   *)
(***************************************************************************)
agentRefK8s(ref) == <<"kagent/">> \o ref

createdSession(a, res) ==
    IF res.kind = "reject" THEN Reject(res.value)
    ELSE IF Nullish(res.value) THEN Reject(TypeError)
    ELSE LET d == Get(res.value, "data") IN
         IF ~Truthy(d) \/ ~Truthy(Get(d, "id"))
         THEN Reject(Err("Error", <<"Invalid session response - missing session ID">>))
         ELSE Resolve(Obj([id |-> Get(d, "id"),
                           user_id |-> OrElse(Get(d, "user_id"), UserId),
                           agent_ref |-> OrElse(Get(d, "agent_ref"), Str(agentRefK8s(a.agentRef))),
                           name |-> Get(d, "name")]))

\* sessions.find(s => s.agent_ref === agentRef); a TypeError inside it is caught
\* by the inner try and leaves existingSession unset
findExisting(sessions, ref) ==
    IF ~IsArray(sessions) THEN Undefined
    ELSE LET hits == {i \in DOMAIN sessions.v :
                        \/ Nullish(sessions.v[i])
                        \/ StrictEq(Get(sessions.v[i], "agent_ref"), Str(ref))}
         IN IF hits = {} THEN Undefined
            ELSE LET first == CHOOSE i \in hits : \A j \in hits : i <= j
                 IN IF Nullish(sessions.v[first]) THEN Undefined ELSE sessions.v[first]

mockSession(a) ==
    Obj([id |-> Str(<<MockPrefix, "17">>), user_id |-> UserId, agent_ref |-> Str(a.agentRef),
         name |-> Str(a.sessionName)])

\* a variant that skips the look for an existing session
fallbackSessionMockOnly(a, res) == Resolve(mockSession(a))

fallbackSession(a, res) ==
    LET existing == findExisting(listGetter("getSessions", res).value, a.agentRef)
    IN IF Truthy(existing) THEN Resolve(existing) ELSE Resolve(mockSession(a))

CreateResponses(ref) ==
    { Obj([data |-> Obj([id |-> Str(<<"sess-9">>), agent_ref |-> Str(agentRefK8s(ref)),
                         name |-> Str(<<"Chat">>)])]),
      Obj([data |-> Obj([id |-> Str(<<"sess-9">>)])]),
      Obj([data |-> Obj([id |-> Str(<<>>)])]),
      Obj([data |-> Null]), EmptyObj, Null }

ListedSessions(ref) ==
    { Obj([id |-> Str(<<"sess-1">>), agent_ref |-> Str(agentRefK8s(ref))]),
      Obj([id |-> Str(<<"sess-2">>), agent_ref |-> Str(ref)]),
      Obj([id |-> Str(<<"sess-3">>), agent_ref |-> Str(<<"kagent/", "other">>)]) }

SessionListResponses(ref) ==
    {Obj([data |-> Arr(l)]) : l \in ListsUpTo(ListedSessions(ref), 2)}
    \cup {EmptyObj, Null, Obj([data |-> Str(<<"x">>)])}

CallCreateSessionWithName ==
    \E ref \in {<<"k8s-agent">>} :
        /\ Begin("createSessionWithName", [agentRef |-> ref, sessionName |-> <<"Chat">>],
                 <<startRequest(1, Endpoint("createSession"), <<>>)>>, "await", <<>>)
        /\ outcome' = outcome

\* the POST completes: the session, or the catch block's getSessions
CompleteCreateSession ==
    /\ pc = "await"
    /\ method = "createSessionWithName"
    /\ \E r \in pending : \E out \in TransportOutcomes(r.via, CreateResponses(args.agentRef)) :
        LET res == requestResult(r.via, out)
            created == createdSession(args, res)
            next == startRequest(nreq + 1, Endpoint("getSessions"), <<>>)
        IN IF created.kind = "resolve"
           THEN Settle(r, created, [res |-> res])
           ELSE /\ pending' = (pending \ {r}) \cup {next}
                /\ reqLog' = Append(reqLog, next)
                /\ nreq' = nreq + 1
                /\ pc' = "awaitSessions"
                /\ locals' = [res |-> res]
                /\ UNCHANGED <<env, config, method, args, outcome, body, inputs, appVars>>

CompleteFallbackSessions ==
    /\ pc = "awaitSessions"
    /\ \E r \in pending : \E out \in TransportOutcomes(r.via, SessionListResponses(args.agentRef)) :
        LET res == requestResult(r.via, out)
        IN Settle(r, fallbackSession(args, res), [res |-> locals.res, listed |-> res])

(***************************************************************************)
(* subscribeToAlerts opens an EventSource and resolves at once             *)
(***************************************************************************)
CallSubscribeToAlerts ==
    LET es == NewRequest(1, "eventsource", "subscribeToAlerts",
                         KhookBaseUrl \o <<"/api", "/alerts", "/stream">>)
    IN /\ pc = "idle"
       /\ method' = "subscribeToAlerts"
       /\ pending' = {es}
       /\ reqLog' = Append(reqLog, es)
       /\ nreq' = nreq + 1
       /\ pc' = "done"
       /\ outcome' = Resolve(Str(<<"EventSource">>))
       /\ UNCHANGED <<env, config, args, locals, body, inputs, appVars>>

(***************************************************************************)
(* updateConfig: the owner of the client may call it between any two steps *)
(***************************************************************************)
updateConfig ==
    /\ pc # "done"
    /\ \E c \in Configs : c # config /\ config' = c
    /\ UNCHANGED <<env, method, args, pc, pending, reqLog, nreq, locals, outcome, body, inputs,
                   appVars>>

(***************************************************************************)
(* Specification of the API client without sendMessage                     *)
(***************************************************************************)
\* the connector the mount effect creates
defaultConnector ==
    [id |-> <<"default">>, agents |-> <<>>, status |-> [connected |-> FALSE]]

\* the App after its mount effect: the default connector is the active one
InitApp ==
    /\ connectors = <<defaultConnector>>
    /\ activeConnector = Str(<<"default">>)
    /\ currentSession = Null
    /\ selectedAgent = Null
    /\ chatMessages = <<>>
    /\ isSendingMessage = FALSE
    /\ sends = {}
    /\ clock = 0

InitCall ==
    /\ method = "none"
    /\ args = <<>>
    /\ pc = "idle"
    /\ pending = {}
    /\ reqLog = <<>>
    /\ nreq = 0
    /\ locals = <<>>
    /\ outcome = [kind |-> "pending"]

InitApi ==
    /\ env \in Envs
    /\ config \in Configs
    /\ body = <<>>
    /\ inputs = <<>>
    /\ InitCall
    /\ InitApp

NextApi ==
    \/ CallSingle
    \/ CallGetSessionEvents
    \/ CompleteSingle
    \/ CallGetAgents
    \/ CompleteGetAgents
    \/ CallGetSession
    \/ CompleteGetSession
    \/ CallGetSessionMessages
    \/ CallGetSessionAnalytics
    \/ CompleteAnalyticsList
    \/ CompleteAnalyticsSession
    \/ CallCreateSessionWithName
    \/ CompleteCreateSession
    \/ CompleteFallbackSessions
    \/ CallSubscribeToAlerts
    \/ updateConfig

SpecApi == InitApi /\ [][NextApi]_vars

(***************************************************************************)
(* Claims about the API client without sendMessage (SpecApi)               *)
(***************************************************************************)
Done(m) == method = m /\ pc = "done"

\* an envelope that is no array and has neither a `data` array nor an `items` array
MalformedEnvelope(x) ==
    /\ ~IsArray(x)
    /\ ~(x.t = "object" /\ IsArray(Get(x, "data")))
    /\ ~(x.t = "object" /\ IsArray(Get(x, "items")))

\* C1: whenever the response envelope is malformed (null and scalars included),
\* getAgents resolves to the empty list and does not reject.
C1_MalformedEnvelopeYieldsEmptyList ==
    (Done("getAgents") /\ locals.res.kind = "resolve" /\ MalformedEnvelope(locals.res.value))
        => outcome = Resolve(<<>>)

\* the list an envelope carries: bare array, then `data`, then `items`
EnvelopeList(x) ==
    IF IsArray(x) THEN x.v
    ELSE IF IsArray(Get(x, "data")) THEN Get(x, "data").v
    ELSE Get(x, "items").v

C6_OneTransportPerRequest ==
    /\ Len(reqLog) = nreq
    /\ \A i, j \in DOMAIN reqLog : reqLog[i].id = reqLog[j].id => i = j
    /\ \A i \in DOMAIN reqLog :
          reqLog[i].by = "request" =>
              /\ reqLog[i].via \in {"invoke", "fetch"}
              /\ reqLog[i].via = "invoke" <=> env.tauri
    /\ \A r \in pending : \E i \in DOMAIN reqLog : reqLog[i] = r

\* the native bridge failed and the call ended with that one transport use
C6_Witness ==
    /\ Done("getAgents")
    /\ env.tauri
    /\ outcome.kind = "reject"
    /\ locals.res.kind = "reject"
    /\ Len(reqLog) = 1
    /\ reqLog[1].via = "invoke"
    /\ pending = {}

NoDataField(x) == ~(x.t = "object" /\ "data" \in DOMAIN x.v)

\* C9: the list getters never reject; when the request fails or the response
\* has no `data` field they resolve to the empty list.
C9_ListGettersNeverReject ==
    (method \in ListGetters /\ pc = "done")
        => /\ outcome.kind = "resolve"
           /\ (locals.res.kind = "reject" \/ NoDataField(locals.res.value))
                 => outcome.value = EmptyList

C9_Witness ==
    /\ method \in ListGetters
    /\ pc = "done"
    /\ locals.res.kind = "reject"
    /\ outcome = Resolve(EmptyList)

(***************************************************************************)
(* sendMessage: the event stream                                           *)
(***************************************************************************)
NL == "\n"
Space == " "

\* buffer.indexOf('\n\n'), counted from 1; 0 when there is none
indexOfDoubleNewline(buffer) ==
    LET hits == {i \in 1..(Len(buffer) - 1) : buffer[i] = NL /\ buffer[i + 1] = NL}
    IN IF hits = {} THEN 0 ELSE CHOOSE i \in hits : \A j \in hits : i <= j

\* eventText.trim() is the empty string
trimIsEmpty(text) == \A i \in DOMAIN text : text[i] \in {NL, Space}

\* eventText.split('\n')
RECURSIVE splitLines(_)
splitLines(text) ==
    LET hits == {i \in DOMAIN text : text[i] = NL}
    IN IF hits = {} THEN <<text>>
       ELSE LET first == CHOOSE i \in hits : \A j \in hits : i <= j
            IN <<SubSeq(text, 1, first - 1)>> \o splitLines(SubSeq(text, first + 1, Len(text)))

\* line.startsWith('data: ')
startsWithData(line) == Len(line) >= 2 /\ line[1] = "data:" /\ line[2] = Space
\* line.substring(6)
dataString(line) == SubSeq(line, 3, Len(line))

AgentMessage(text) ==
    Obj([status |-> Obj([message |-> Obj([role |-> Str(<<"agent">>),
                                          parts |-> Arr(<<Obj([kind |-> Str(<<"text">>),
                                                               text |-> Str(text)])>>)])])])

\* the JSON documents of the model, by the token that stands for their text
PayloadJSON ==
    [ A1 |-> Obj([result |-> AgentMessage(<<"alpha">>)]),
      A2 |-> AgentMessage(<<"beta">>),
      A0 |-> Obj([result |-> Obj([status |-> Obj([message |-> Obj([role |-> Str(<<"agent">>),
                                                                  parts |-> Arr(<<>>)])])])]),
      U1 |-> Obj([result |-> Obj([status |-> Obj([message |-> Obj([role |-> Str(<<"user">>),
                        parts |-> Arr(<<Obj([text |-> Str(<<"hello">>)])>>)])])])]) ]

RECURSIVE stripSpaces(_)
stripSpaces(text) ==
    IF text # <<>> /\ Head(text) = Space THEN stripSpaces(Tail(text))
    ELSE IF text # <<>> /\ text[Len(text)] = Space THEN stripSpaces(SubSeq(text, 1, Len(text) - 1))
    ELSE text

\* JSON.parse: one document, white space around it allowed
JSONParse(text) ==
    LET t == stripSpaces(text)
    IN IF Len(t) = 1 /\ t[1] \in DOMAIN PayloadJSON
       THEN [ok |-> TRUE, value |-> PayloadJSON[t[1]]]
       ELSE [ok |-> FALSE]

\* a variant that appends the text of an agent message to the earlier ones
onEventDataConcat(eventData, lastMessage) ==
    LET result == OrElse(Get(eventData, "result"), eventData)
        message == OptGet(OptGet(result, "status"), "message")
        parts == OptGet(message, "parts")
        first == IF IsArray(parts) /\ Len(parts.v) >= 1 THEN parts.v[1] ELSE Undefined
        text == OptGet(first, "text")
    IN IF StrictEq(OptGet(message, "role"), Str(<<"agent">>))
       THEN lastMessage \o (IF Truthy(text) THEN text.v ELSE <<>>)
       ELSE lastMessage

\* the body of the inner try: the new lastMessage
onEventData(eventData, lastMessage) ==
    LET result == OrElse(Get(eventData, "result"), eventData)
        message == OptGet(OptGet(result, "status"), "message")
        parts == OptGet(message, "parts")
        first == IF IsArray(parts) /\ Len(parts.v) >= 1 THEN parts.v[1] ELSE Undefined
        text == OptGet(first, "text")
    IN IF StrictEq(OptGet(message, "role"), Str(<<"agent">>))
       THEN (IF Truthy(text) THEN text.v ELSE <<>>)
       ELSE lastMessage

\* a variant in which a payload that is no JSON clears lastMessage
onDataLineClearsOnError(line, lastMessage) ==
    LET parsed == JSONParse(dataString(line))
    IN IF parsed.ok /\ ~Nullish(parsed.value)
       THEN onEventData(parsed.value, lastMessage)
       ELSE <<>>

\* one `data: ` line that is not [DONE]
onDataLine(line, lastMessage) ==
    LET parsed == JSONParse(dataString(line))
    IN IF parsed.ok /\ ~Nullish(parsed.value)
       THEN onEventData(parsed.value, lastMessage)
       ELSE lastMessage

\* dataString === '[DONE]'
isDone(line) == dataString(line) = <<"[DONE]">>

\* for (const line of lines) { ... break on [DONE] ... }
RECURSIVE forLines(_, _)
forLines(lines, lastMessage) ==
    IF lines = <<>> THEN lastMessage
    ELSE IF ~startsWithData(Head(lines)) THEN forLines(Tail(lines), lastMessage)
    ELSE IF isDone(Head(lines)) THEN lastMessage
    ELSE forLines(Tail(lines), onDataLine(Head(lines), lastMessage))

onEvent(eventText, lastMessage) ==
    IF trimIsEmpty(eventText) THEN lastMessage
    ELSE forLines(splitLines(eventText), lastMessage)

\* a variant that keeps the second newline of the boundary in the buffer
restOfBufferKeepsNewline(buffer, index) == SubSeq(buffer, index + 1, Len(buffer))

\* what is left in the buffer after an event has been cut off at index
restOfBuffer(buffer, index) == SubSeq(buffer, index + 2, Len(buffer))

\* while ((eventEndIndex = buffer.indexOf('\n\n')) >= 0) { ... }
RECURSIVE processBuffer(_, _, _)
processBuffer(buffer, lastMessage, events) ==
    LET index == indexOfDoubleNewline(buffer)
    IN IF index = 0
       THEN [buffer |-> buffer, lastMessage |-> lastMessage, events |-> events]
       ELSE LET eventText == SubSeq(buffer, 1, index - 1)
            IN processBuffer(restOfBuffer(buffer, index), onEvent(eventText, lastMessage),
                             Append(events, eventText))

\* a variant that assigns the chunk to the buffer instead of appending it
onChunkNoCarry(loc, chunk) ==
    LET p == processBuffer(chunk, loc.lastMessage, loc.events)
    IN [loc EXCEPT !.buffer = p.buffer, !.lastMessage = p.lastMessage, !.events = p.events,
                   !.pos = loc.pos + Len(chunk)]

\* buffer += decoder.decode(value, { stream: true }), then the loop above
onChunk(loc, chunk) ==
    LET p == processBuffer(loc.buffer \o chunk, loc.lastMessage, loc.events)
    IN [loc EXCEPT !.buffer = p.buffer, !.lastMessage = p.lastMessage, !.events = p.events,
                   !.pos = loc.pos + Len(chunk)]

\* the lines a stream of the model is made of
StreamLines ==
    { <<"data:", Space, "A1">>,
      <<"data:", Space, "A2">>,
      <<"data:", Space, "A0">>,
      <<"data:", Space, "U1">>,
      <<"data:", Space, "[DONE]">>,
      <<"data:", Space, "{bad">>,
      <<"data:", "A1">>,
      <<"id:", Space, "A2">>,
      <<>> }

RECURSIVE joinLines(_)
joinLines(lines) ==
    IF lines = <<>> THEN <<>> ELSE Head(lines) \o <<NL>> \o joinLines(Tail(lines))

Streams == {joinLines(l) : l \in ListsUpTo(StreamLines, MaxLines)}

(***************************************************************************)
(* sendMessage: session lookup, A2A request, stream, fallback              *)
(***************************************************************************)

\* `Mock response to: "${message}" (A2A error: ${error})`
mockResponse(a, error) ==
    Resolve([message |-> <<"Mock response to: \"">> \o a.message \o <<"\" (A2A error: ">>
                         \o ErrorText(error) \o <<")">>,
             sessionId |-> a.sessionId])

\* a variant of the catch block that rethrows
sendMessageCatchRethrow(a, error) == Reject(error)

\* the catch block of sendMessage
sendMessageCatch(a, error) == mockResponse(a, error)

\* agent_id.split('__NS__')
RECURSIVE splitNS(_)
splitNS(text) ==
    LET hits == {i \in DOMAIN text : text[i] = "__NS__"}
    IN IF hits = {} THEN <<text>>
       ELSE LET first == CHOOSE i \in hits : \A j \in hits : i <= j
            IN <<SubSeq(text, 1, first - 1)>> \o splitNS(SubSeq(text, first + 1, Len(text)))

\* a variant that replaces the first '_' only
replaceFirstUnderscore(text) ==
    [i \in DOMAIN text |-> IF text[i] = "_" /\ \A j \in 1..(i - 1) : text[j] # "_"
                           THEN "-" ELSE text[i]]

\* .replace(/_/g, '-')
replaceUnderscores(text) ==
    [i \in DOMAIN text |-> CASE text[i] = "_" -> "-"
                             [] text[i] = "__NS__" -> "--NS--"
                             [] OTHER -> text[i]]

a2aTarget(session) ==
    LET agentId == Get(session, "agent_id") IN
    IF Truthy(agentId)
    THEN LET parts == splitNS(agentId.v)
         IN IF Len(parts) = 2
            THEN [namespace |-> parts[1], agentName |-> replaceUnderscores(parts[2])]
            ELSE [namespace |-> <<"kagent">>, agentName |-> replaceUnderscores(agentId.v)]
    ELSE [namespace |-> <<"kagent">>, agentName |-> <<"k8s-agent">>]

\* text.replace('/api', ''): the first occurrence only
removeFirstApi(text) ==
    LET hits == {i \in 1..(Len(text) - 1) : text[i] = "/" /\ text[i + 1] = "api"}
    IN IF hits = {} THEN text
       ELSE LET first == CHOOSE i \in hits : \A j \in hits : i <= j
            IN SubSeq(text, 1, first - 1) \o SubSeq(text, first + 2, Len(text))

a2aUrl(c, target) ==
    removeFirstApi(apiBaseUrl(c)) \o <<"/", "api", "/a2a", "/">> \o target.namespace \o <<"/">>
        \o target.agentName \o <<"/">>

\* a2aUrl.startsWith('http')
startsWithHttp(url) == url # <<>> /\ url[1] \in {"http", "https"}

\* the reply after the reader reported done
replyOf(a, lastMessage) ==
    IF lastMessage # <<>>
    THEN Resolve([message |-> lastMessage, sessionId |-> a.sessionId])
    ELSE sendMessageCatch(a, Err("Error", <<"No agent message found in SSE stream">>))

\* a failure path: the catch block settles the call; locals keep what was thrown
Fail(r, cause, error) ==
    Settle(r, sendMessageCatch(args, error), [cause |-> cause, error |-> error])

CallSendMessage ==
    \E id \in inputs.ids, m \in {<<"why is the pod pending?">>} :
        /\ Begin("sendMessage", [sessionId |-> id, message |-> m],
                 <<startRequest(1, sessionEndpoint(id), <<>>)>>, "getSession", <<>>)
        /\ outcome' = outcome

\* a variant without the test of the session
sessionFoundAlways(sess) == TRUE

\* if (!session) throw new Error('Session not found')
sessionFound(sess) == Truthy(sess.value)

\* getSession settles: a failure path, or the A2A POST
SendSessionComplete ==
    /\ pc = "getSession"
    /\ \E r \in pending : \E out \in TransportOutcomes(r.via, inputs.envelopes) :
        LET sess == getSession(args.sessionId, requestResult(r.via, out))
            url == a2aUrl(config, a2aTarget(sess.value))
            post == NewRequest(nreq + 1, "fetch", "sendMessage", url)
        IN IF sess.kind = "reject" THEN Fail(r, "session lookup rejects", sess.value)
           ELSE IF ~sessionFound(sess)
                THEN Fail(r, "session lookup yields null", Err("Error", <<"Session not found">>))
           ELSE IF ~startsWithHttp(url)
                THEN Fail(r, "non-absolute A2A URL", Err("Error", <<"Invalid A2A URL: ">> \o url
                                                      \o <<" - URL must be absolute">>))
           ELSE /\ pending' = (pending \ {r}) \cup {post}
                /\ reqLog' = Append(reqLog, post)
                /\ nreq' = nreq + 1
                /\ pc' = "fetch"
                /\ locals' = [session |-> sess.value]
                /\ UNCHANGED <<env, config, method, args, outcome, body, inputs, appVars>>

\* the A2A fetch settles: rejected, not ok, no body, or a readable stream
SendFetchComplete ==
    /\ pc = "fetch"
    /\ \E r \in pending :
        \/ Fail(r, "fetch rejects", Err("TypeError", <<"Failed to fetch">>))
        \/ \E s \in Statuses :
             Fail(r, "non-ok HTTP status", Err("Error", <<"A2A request failed: ", s>>))
        \/ Fail(r, "missing response body", Err("Error", <<"No response body">>))
        \/ /\ pc' = "read"
           /\ locals' = [buffer |-> <<>>, lastMessage |-> <<>>, events |-> <<>>, pos |-> 0]
           /\ UNCHANGED <<env, config, method, args, pending, reqLog, nreq, outcome, body,
                          inputs, appVars>>

\* reader.read() yields the next chunk of the stream
SendReadChunk ==
    /\ pc = "read"
    /\ \E n \in 1..MaxChunk :
        /\ locals.pos + n <= Len(body)
        /\ locals' = onChunk(locals, SubSeq(body, locals.pos + 1, locals.pos + n))
    /\ UNCHANGED <<env, config, method, args, pc, pending, reqLog, nreq, outcome, body, inputs,
                   appVars>>

\* reader.read() reports done: the reply, or the failure of an empty lastMessage
SendReadDone ==
    /\ pc = "read"
    /\ locals.pos = Len(body)
    /\ \E r \in pending :
         Settle(r, replyOf(args, locals.lastMessage),
                [cause |-> IF locals.lastMessage # <<>> THEN "none" ELSE "no agent message",
                 error |-> Err("Error", <<"No agent message found in SSE stream">>),
                 lastMessage |-> locals.lastMessage, events |-> locals.events,
                 buffer |-> locals.buffer, pos |-> locals.pos])

\* reader.read() rejects
SendReadError ==
    /\ pc = "read"
    /\ \E r \in pending : Fail(r, "stream read error", Err("TypeError", <<"network error">>))

NextSend ==
    \/ CallSendMessage
    \/ SendSessionComplete
    \/ SendFetchComplete
    \/ SendReadChunk
    \/ SendReadDone
    \/ SendReadError

\* sendMessage in every environment and configuration, on a few streams
SampleStreams ==
    { <<>>,
      joinLines(<<<<"data:", Space, "A1">>, <<>>>>),
      joinLines(<<<<"data:", Space, "U1">>, <<>>, <<"data:", Space, "[DONE]">>, <<>>>>) }

AllInputs == [ids |-> SessionIds, envelopes |-> SessionResponses(<<"sess-1">>)]

InitSend ==
    /\ env \in Envs
    /\ config \in Configs
    /\ body \in SampleStreams
    /\ inputs = AllInputs
    /\ InitCall
    /\ InitApp

SpecSend == InitSend /\ [][NextSend]_vars

\* sendMessage on every stream of the model
StreamInputs ==
    [ids |-> {<<"sess-1">>},
     envelopes |-> {Obj([data |-> Obj([session |-> SessionObject(<<"sess-1">>,
                                            <<"kagent", "__NS__", "k8s", "_", "agent">>)])])}]

InitStream ==
    /\ env = [tauri |-> FALSE, localhost |-> FALSE]
    /\ config = DefaultConfig
    /\ body \in Streams
    /\ inputs = StreamInputs
    /\ InitCall
    /\ InitApp

SpecStream == InitStream /\ [][NextSend]_vars

\* every public method
InitClient ==
    /\ env \in Envs
    /\ config \in Configs
    /\ body \in SampleStreams
    /\ inputs = AllInputs
    /\ InitCall
    /\ InitApp

NextClient == NextApi \/ NextSend

SpecClient == InitClient /\ [][NextClient]_vars

(***************************************************************************)
(* Claims about the outcome of sendMessage (SpecSend)                      *)
(***************************************************************************)
FailurePaths ==
    {"session lookup rejects", "session lookup yields null", "non-absolute A2A URL",
     "fetch rejects", "non-ok HTTP status", "missing response body", "stream read error",
     "no agent message"}

\* part occurs in text
Contains(text, part) ==
    \E i \in 0..(Len(text) - Len(part)) : SubSeq(text, i + 1, i + Len(part)) = part

\* C10: sendMessage never rejects; on each of its failure paths it resolves with
\* a mock reply that carries the sessionId argument and whose message embeds
\* the message argument and the error.
C10_SendMessageNeverRejects ==
    Done("sendMessage")
        => /\ outcome.kind = "resolve"
           /\ outcome.value.sessionId = args.sessionId
           /\ locals.cause \in FailurePaths \cup {"none"}
           /\ locals.cause \in FailurePaths
                 => /\ Contains(outcome.value.message, <<"Mock response to: \"">> \o args.message)
                    /\ Contains(outcome.value.message, ErrorText(locals.error))

C10_Witness ==
    /\ Done("sendMessage")
    /\ locals.cause = "stream read error"
    /\ outcome.kind = "resolve"
    /\ outcome.value.sessionId = args.sessionId
    /\ Contains(outcome.value.message, args.message)
    /\ Contains(outcome.value.message, <<"network error">>)

(***************************************************************************)
(* Claims about the event stream (SpecStream)                              *)
(***************************************************************************)
\* the text of the first part of the agent-role status message a payload carries
AgentTexts == [A1 |-> <<"alpha">>, A2 |-> <<"beta">>, A0 |-> <<>>]

DoneLine == <<"data:", Space, "[DONE]">>

\* the lines of an event that no `data: [DONE]` line precedes
RECURSIVE beforeDone(_)
beforeDone(lines) ==
    IF lines = <<>> \/ Head(lines) = DoneLine THEN <<>>
    ELSE <<Head(lines)>> \o beforeDone(Tail(lines))

\* the lines of the complete events in stream order
RECURSIVE linesOf(_, _)
linesOf(events, untilDone) ==
    IF events = <<>> THEN <<>>
    ELSE (IF untilDone THEN beforeDone(splitLines(Head(events))) ELSE splitLines(Head(events)))
         \o linesOf(Tail(events), untilDone)

\* the payload of a line that begins with `data: `
payloadAfterDataSpace(line) ==
    IF Len(line) = 3 /\ line[1] = "data:" /\ line[2] = Space THEN line[3] ELSE "none"

\* the payload of a line that begins with `data:`
payloadAfterData(line) ==
    IF Len(line) = 3 /\ line[1] = "data:" /\ line[2] = Space THEN line[3]
    ELSE IF Len(line) = 2 /\ line[1] = "data:" THEN line[2]
    ELSE "none"

\* the text of the last agent message among the payloads, the empty text without one
LastAgentText(payloads) ==
    LET hits == {i \in DOMAIN payloads : payloads[i] \in DOMAIN AgentTexts}
    IN IF hits = {} THEN <<>>
       ELSE LET last == CHOOSE i \in hits : \A j \in hits : j <= i
            IN AgentTexts[payloads[last]]

\* the payloads of the `data: ` lines of the events, "none" for any other line
DataSpacePayloads(events, untilDone) ==
    LET lines == linesOf(events, untilDone)
    IN [i \in DOMAIN lines |-> payloadAfterDataSpace(lines[i])]

\* the payloads of the `data:` lines of the events, "none" for any other line
DataPayloads(events, untilDone) ==
    LET lines == linesOf(events, untilDone)
    IN [i \in DOMAIN lines |-> payloadAfterData(lines[i])]

RealReply == Done("sendMessage") /\ locals.cause = "none"

\* C3 as stated: a non-mock reply is the text of the first part of the last
\* agent-role status message among all complete events of the stream.
C3_LastAgentMessageOfStream ==
    RealReply
        => outcome.value.message = LastAgentText(DataSpacePayloads(locals.events, FALSE))

\* C3: a non-mock reply is the text of the first part of the last agent-role
\* status message among the `data: ` lines of the complete events that no
\* `data: [DONE]` line precedes in their event; earlier agent messages are
\* overwritten, never concatenated.
C3_LastAgentMessageBeforeDone ==
    RealReply
        => outcome.value.message = LastAgentText(DataSpacePayloads(locals.events, TRUE))

C3_Witness ==
    /\ RealReply
    /\ outcome.value.message = <<"beta">>
    /\ \E i \in DOMAIN locals.events : Contains(locals.events[i], <<"data:", Space, "A1">>)

\* C4: however the transport cuts the stream into chunks, after the chunks read
\* so far lastMessage, the buffer and the events are what one chunk holding the
\* same text gives, and so is the reply once the stream has ended.
C4_ChunkingIndependent ==
    (method = "sendMessage" /\ "pos" \in DOMAIN locals)
        => LET one == processBuffer(SubSeq(body, 1, locals.pos), <<>>, <<>>)
           IN /\ locals.lastMessage = one.lastMessage
              /\ locals.buffer = one.buffer
              /\ locals.events = one.events
              /\ pc = "done" => /\ locals.pos = Len(body)
                                /\ outcome = replyOf(args, one.lastMessage)

\* a chunk ended between the two newlines of an event boundary, after an
\* earlier event gave a message
C4_Witness ==
    /\ method = "sendMessage"
    /\ pc = "read"
    /\ locals.lastMessage = <<"alpha">>
    /\ locals.buffer = <<"data:", Space, "A2", NL>>
    /\ locals.pos < Len(body)
    /\ body[locals.pos + 1] = NL

\* C5 as stated: every line of a complete event that begins with `data:` is
\* extracted and parsed, so lastMessage follows the last agent message among
\* them; other lines have no influence.
C5_EveryDataLineParsed ==
    (method = "sendMessage" /\ "pos" \in DOMAIN locals)
        => locals.lastMessage = LastAgentText(DataPayloads(locals.events, TRUE))

Agents == {<<"k8s-agent">>, <<"helm-agent">>}

\* currentConnectorAPI: an API client exists while the active id is that of a
\* connector in the list
currentConnectorAPI ==
    \E i \in DOMAIN connectors : StrictEq(Str(connectors[i].id), activeConnector)

ChatMessage(id, role, content, sessionId) ==
    [id |-> id, role |-> role, content |-> content, sessionId |-> sessionId]

\* what createSessionWithName may resolve to
StartedSessions(agent) ==
    { Obj([id |-> Str(<<"sess-">> \o agent), user_id |-> UserId,
           agent_ref |-> Str(agentRefK8s(agent))]),
      mockSession([agentRef |-> agent, sessionName |-> <<"Chat with ">> \o agent]) }

\* what sendMessage may resolve to
SendReplies(a) ==
    { replyOf(a, <<"alpha">>),
      sendMessageCatch(a, Err("TypeError", <<"Failed to fetch">>)) }

\* the calls awaiting createSessionWithName, and those awaiting sendMessage
StartsInFlight == {s \in sends : s.kind \in {"startChatWithAgent", "startStandaloneChat"}}
SendsInFlight == {s \in sends : s.kind = "sendMessage"}

\* startChatWithAgent and startStandaloneChat up to the await of createSessionWithName
startChatWithAgent ==
    \E agent \in Agents, kind \in {"startChatWithAgent", "startStandaloneChat"} :
        /\ currentConnectorAPI
        /\ selectedAgent' = Obj([name |-> Str(agent)])
        /\ sends' = sends \cup {[kind |-> kind, agent |-> agent]}
        /\ UNCHANGED <<connectors, activeConnector, currentSession, chatMessages,
                       isSendingMessage, clock, apiVars>>

\* createSessionWithName settles; getSessionMessages resolves to the empty list
\* without a request, so the two state updates are not separated by an event
StartChatSettles ==
    \E s \in StartsInFlight : \E session \in StartedSessions(s.agent) :
        /\ sends' = sends \ {s}
        /\ currentSession' = session
        /\ chatMessages' = <<>>
        /\ UNCHANGED <<connectors, activeConnector, selectedAgent, isSendingMessage, clock,
                       apiVars>>

clearChatSession ==
    /\ currentSession' = Null
    /\ selectedAgent' = Null
    /\ chatMessages' = <<>>
    /\ UNCHANGED <<connectors, activeConnector, isSendingMessage, sends, clock, apiVars>>

\* handleSendMessage up to the await of sendMessage
handleSendMessage ==
    \E message \in {<<"why is the pod pending?">>} :
        /\ ~(~Truthy(currentSession) \/ ~Truthy(selectedAgent) \/ ~currentConnectorAPI)
        /\ clock < MaxSends
        /\ isSendingMessage' = TRUE
        /\ chatMessages' = Append(chatMessages,
                                  ChatMessage(clock, "user", message, Get(currentSession, "id")))
        /\ sends' = sends \cup {[kind |-> "sendMessage", id |-> clock,
                                 sessionId |-> Get(currentSession, "id"), message |-> message]}
        /\ clock' = clock + 1
        /\ UNCHANGED <<connectors, activeConnector, currentSession, selectedAgent, apiVars>>

\* a variant without the finally block
SendMessageSettlesNoFinally ==
    \E s \in SendsInFlight : \E response \in SendReplies([sessionId |-> s.sessionId.v,
                                                          message |-> s.message]) :
        /\ sends' = sends \ {s}
        /\ chatMessages' = Append(chatMessages,
                                  ChatMessage(s.id, "assistant", response.value.message,
                                              s.sessionId))
        /\ UNCHANGED <<connectors, activeConnector, currentSession, selectedAgent,
                       isSendingMessage, clock, apiVars>>

\* sendMessage settles: the assistant message, then the finally block
SendMessageSettles ==
    \E s \in SendsInFlight : \E response \in SendReplies([sessionId |-> s.sessionId.v,
                                                          message |-> s.message]) :
        /\ sends' = sends \ {s}
        /\ chatMessages' =
              Append(chatMessages,
                     IF response.kind = "resolve"
                     THEN ChatMessage(s.id, "assistant",
                                      IF response.value.message # <<>>
                                      THEN response.value.message
                                      ELSE <<"No response received">>,
                                      s.sessionId)
                     ELSE ChatMessage(s.id, "assistant",
                                      <<"Sorry, I encountered an error while processing your message. Please try again.">>,
                                      s.sessionId))
        /\ isSendingMessage' = FALSE
        /\ UNCHANGED <<connectors, activeConnector, currentSession, selectedAgent, clock,
                       apiVars>>

InitChat ==
    /\ env = [tauri |-> FALSE, localhost |-> FALSE]
    /\ config = DefaultConfig
    /\ body = <<>>
    /\ inputs = <<>>
    /\ InitCall
    /\ InitApp

NextChat ==
    \/ startChatWithAgent
    \/ StartChatSettles
    \/ clearChatSession
    \/ handleSendMessage
    \/ SendMessageSettles

SpecApp == InitChat /\ [][NextChat]_vars

(***************************************************************************)
(* The connectors of the App component                                     *)
(***************************************************************************)
\* status.lastChecked, name, config and isActive of a connector are left out:
\* no handler below reads them

\* what api.getAgents() of connectToConnector may settle with
ConnectReplies ==
    { getAgents(Resolve(Arr(<<Obj([name |-> Str(<<"a1">>), namespace |-> Str(<<"dev">>)])>>))),
      getAgents(Resolve(Arr(<<>>))),
      getAgents(Reject(NetworkError(<<"Failed to fetch">>))) }

\* the connectToConnector calls awaiting getAgents; a second call for a connector
\* that already has one in flight is not told apart from the first
ConnectsInFlight == {s \in sends : s.kind = "connectToConnector"}

\* the form of the modal submitted; Date.now() differs from one submission to the
\* next, as the modal has to be opened again in between
addConnector ==
    /\ clock < MaxAdds
    /\ connectors' = Append(connectors, [id |-> <<"connector-", ToString(clock)>>,
                                         agents |-> <<>>,
                                         status |-> [connected |-> FALSE]])
    /\ clock' = clock + 1
    /\ UNCHANGED <<activeConnector, currentSession, selectedAgent, chatMessages,
                   isSendingMessage, sends, apiVars>>

\* the Activate button of a connector that is not the active one
setActiveConnector ==
    \E i \in DOMAIN connectors :
        /\ ~StrictEq(Str(connectors[i].id), activeConnector)
        /\ activeConnector' = Str(connectors[i].id)
        /\ UNCHANGED <<connectors, currentSession, selectedAgent, chatMessages,
                       isSendingMessage, sends, clock, apiVars>>

\* a variant that leaves activeConnector as it is
removeConnectorKeepsActive ==
    \E i \in DOMAIN connectors :
        LET connectorId == connectors[i].id
            keep(c) == c.id # connectorId
        IN /\ Len(connectors) > 1
           /\ connectors' = SelectSeq(connectors, keep)
           /\ UNCHANGED <<activeConnector, currentSession, selectedAgent, chatMessages,
                          isSendingMessage, sends, clock, apiVars>>

\* the Remove button, shown while connectors.length > 1
removeConnector ==
    \E i \in DOMAIN connectors :
        LET connectorId == connectors[i].id
            keep(c) == c.id # connectorId
            remainingConnectors == SelectSeq(connectors, keep)
        IN /\ Len(connectors) > 1
           /\ connectors' = remainingConnectors
           /\ activeConnector' =
                 IF StrictEq(activeConnector, Str(connectorId))
                 THEN IF Len(remainingConnectors) > 0
                      THEN Str(remainingConnectors[1].id)
                      ELSE Null
                 ELSE activeConnector
           /\ UNCHANGED <<currentSession, selectedAgent, chatMessages, isSendingMessage, sends,
                          clock, apiVars>>

\* connectToConnector up to the await of getAgents (the Reconnect button)
connectToConnector ==
    \E i \in DOMAIN connectors :
        /\ sends' = sends \cup {[kind |-> "connectToConnector", id |-> connectors[i].id]}
        /\ UNCHANGED <<connectors, activeConnector, currentSession, selectedAgent, chatMessages,
                       isSendingMessage, clock, apiVars>>

\* a variant that puts the connector back when it is no longer in the list
ConnectSettlesReAdds ==
    \E s \in ConnectsInFlight : \E r \in ConnectReplies :
        /\ sends' = sends \ {s}
        /\ connectors' =
              IF \E i \in DOMAIN connectors : connectors[i].id = s.id
              THEN [i \in DOMAIN connectors |->
                      IF connectors[i].id = s.id
                      THEN [connectors[i] EXCEPT !.status = [connected |-> r.kind = "resolve"]]
                      ELSE connectors[i]]
              ELSE Append(connectors, [id |-> s.id, agents |-> <<>>,
                                       status |-> [connected |-> r.kind = "resolve"]])
        /\ UNCHANGED <<activeConnector, currentSession, selectedAgent, chatMessages,
                       isSendingMessage, clock, apiVars>>

\* getAgents settles: setConnectors(prev => prev.map(...)) of the try or the catch
ConnectSettles ==
    \E s \in ConnectsInFlight : \E r \in ConnectReplies :
        /\ sends' = sends \ {s}
        /\ connectors' =
              [i \in DOMAIN connectors |->
                 IF connectors[i].id = s.id
                 THEN IF r.kind = "resolve"
                      THEN [connectors[i] EXCEPT !.agents = r.value,
                                                 !.status = [connected |-> TRUE]]
                      ELSE [connectors[i] EXCEPT !.status = [connected |-> FALSE,
                                                             error |-> r.value.message]]
                 ELSE connectors[i]]
        /\ UNCHANGED <<activeConnector, currentSession, selectedAgent, chatMessages,
                       isSendingMessage, clock, apiVars>>

\* the App right after its mount effect: connectToConnector(defaultConnector) is
\* awaiting getAgents
InitConnectors ==
    /\ env = [tauri |-> FALSE, localhost |-> FALSE]
    /\ config = DefaultConfig
    /\ body = <<>>
    /\ inputs = <<>>
    /\ InitCall
    /\ connectors = <<defaultConnector>>
    /\ activeConnector = Str(<<"default">>)
    /\ currentSession = Null
    /\ selectedAgent = Null
    /\ chatMessages = <<>>
    /\ isSendingMessage = FALSE
    /\ sends = {[kind |-> "connectToConnector", id |-> <<"default">>]}
    /\ clock = 0

NextConnectors ==
    \/ addConnector
    \/ setActiveConnector
    \/ removeConnector
    \/ connectToConnector
    \/ ConnectSettles

SpecConnectors == InitConnectors /\ [][NextConnectors]_vars

(***************************************************************************)
(* Claims about the chat state (SpecApp)                                   *)
(***************************************************************************)
\* C8 as stated: isSendingMessage is true exactly while a sendMessage request is
\* in flight, and no second sendMessage starts while one is in flight.
C8_SingleFlight ==
    /\ isSendingMessage <=> SendsInFlight # {}
    /\ Cardinality(SendsInFlight) <= 1

(***************************************************************************)
(* Claims about createSessionWithName (SpecApi)                            *)
(***************************************************************************)
\* the creation request answered with a session that has a non-empty id
CreationSucceeded(res) ==
    /\ res.kind = "resolve"
    /\ res.value.t = "object"
    /\ Get(res.value, "data").t = "object"
    /\ Get(Get(res.value, "data"), "id").t = "string"
    /\ Get(Get(res.value, "data"), "id").v # <<>>

\* the sessions getSessions resolved to: the `data` array, else none
SessionsListed(res) ==
    IF res.kind = "resolve" /\ res.value.t = "object" /\ IsArray(Get(res.value, "data"))
    THEN Get(res.value, "data").v
    ELSE <<>>

\* positions of the listed sessions whose agent_ref is the given one
ListedFor(listed, ref) ==
    {i \in DOMAIN listed : listed[i].t = "object"
                           /\ StrictEq(Get(listed[i], "agent_ref"), Str(ref))}

C20_ReusesSessionOfSameAgent ==
    (Done("createSessionWithName") /\ ~CreationSucceeded(locals.res)
        /\ ListedFor(SessionsListed(locals.listed), agentRefK8s(args.agentRef)) # {})
        => /\ outcome.kind = "resolve"
           /\ StrictEq(Get(outcome.value, "agent_ref"), Str(agentRefK8s(args.agentRef)))
           /\ ~isMockSessionId(Get(outcome.value, "id").v)

(***************************************************************************)
(* Claims about the addresses of requests (SpecApi, SpecSend)              *)
(***************************************************************************)
\* text begins with prefix
StartsWith(text, prefix) ==
    Len(text) >= Len(prefix) /\ SubSeq(text, 1, Len(prefix)) = prefix

\* `<protocol>://<host>:<port>` of a configuration
Origin(c) == <<c.protocol, ":", "/", "/">> \o c.host \o <<":", c.port>>

\* the REST requests a step starts
RestStarted == {r \in pending' \ pending : r.by = "request"}

\* C12 as stated: every REST request is addressed to the protocol, host and
\* port of the configuration current when it is issued.
C12_RequestsAddressConfig ==
    [][\A r \in RestStarted : StartsWith(r.url, Origin(config))]_vars

\* C12: outside web development, or inside Tauri, every REST request of a method
\* that is not a khook method is addressed to the origin of the configuration
\* current when it is issued; in web development outside Tauri such a request
\* goes to the relative path /api; the khook methods address
\* http://localhost:8082 (getHook in web development: /khook-api) whatever
\* the configuration is.
C12_RequestsAddressConfigOrProxy ==
    [][\A r \in RestStarted :
          IF method' \in HookCallers
          THEN IF method' = "getHook" /\ env.localhost
               THEN StartsWith(r.url, <<"/khook-api">>)
               ELSE StartsWith(r.url, <<"http", ":", "/", "/", "localhost", ":", "8082">>)
          ELSE IF ~env.tauri /\ env.localhost
               THEN StartsWith(r.url, <<"/api">>)
               ELSE StartsWith(r.url, Origin(config) \o <<"/", "api">>)]_vars

\* two requests of one call, the second one addressed to a configuration that
\* updateConfig set after the first one was issued
C12_Witness ==
    /\ Len(reqLog) = 2
    /\ reqLog[1].by = "request" /\ reqLog[2].by = "request"
    /\ StartsWith(reqLog[1].url, Origin(DefaultConfig))
    /\ ~StartsWith(reqLog[2].url, Origin(DefaultConfig))
    /\ StartsWith(reqLog[2].url, Origin(config))

\* C13 as stated: the chat request of sendMessage is POSTed to
\* `<protocol>://<host>:<port>/api/a2a/<namespace>/<agentName>/` of the
\* configuration, whatever the host name is.
C13_A2AUrlKeepsOrigin ==
    \A r \in pending :
        r.by = "sendMessage" => StartsWith(r.url, Origin(config) \o <<"/", "api", "/a2a", "/">>)

(***************************************************************************)
(* Claims about the buffer and the lines of the stream (SpecStream)        *)
(***************************************************************************)
\* the events with the double newline that ended each of them
RECURSIVE terminated(_)
terminated(events) ==
    IF events = <<>> THEN <<>>
    ELSE Head(events) \o <<NL, NL>> \o terminated(Tail(events))

HasDoubleNewline(text) == \E i \in 1..(Len(text) - 1) : text[i] = NL /\ text[i + 1] = NL

Reading == method = "sendMessage" /\ "pos" \in DOMAIN locals

\* C14: after each chunk the buffer holds no double newline, the consumed events
\* followed by the buffer are the text received so far, and no event holds a
\* double newline: every terminated event was consumed once, in arrival order.
C14_BufferInvariant ==
    Reading
        => /\ ~HasDoubleNewline(locals.buffer)
           /\ \A i \in DOMAIN locals.events : ~HasDoubleNewline(locals.events[i])
           /\ terminated(locals.events) \o locals.buffer = SubSeq(body, 1, locals.pos)

\* the stream has ended with one event consumed and an unterminated line left
C14_Witness ==
    /\ Reading
    /\ locals.pos = Len(body)
    /\ Len(locals.events) = 1
    /\ locals.events[1] # <<>>
    /\ locals.buffer # <<>>

\* C15 as stated: a complete event with an agent message whose first part has
\* text makes sendMessage resolve with a real reply once the stream has ended
\* (the lines after a `data: [DONE]` line in their event are not counted).
C15_AgentMessageGivesRealReply ==
    (Done("sendMessage") /\ "pos" \in DOMAIN locals
        /\ \E i \in DOMAIN DataSpacePayloads(locals.events, TRUE) :
              DataSpacePayloads(locals.events, TRUE)[i] \in {"A1", "A2"})
        => /\ locals.cause = "none"
           /\ outcome.value.message \in {<<"alpha">>, <<"beta">>}

BadLine == <<"data:", Space, "{bad">>

HasBadLine(events) ==
    \E i \in DOMAIN linesOf(events, TRUE) : linesOf(events, TRUE)[i] = BadLine

\* C16: a `data: ` line whose payload is no JSON leaves lastMessage as it was:
\* with such a line among the events, lastMessage is still the text of the last
\* agent message of the lines before and after it, the buffer is the
\* unterminated rest, and the call does not fail because of the line.
C16_BadJsonLineIsSkipped ==
    (Reading /\ HasBadLine(locals.events))
        => /\ locals.lastMessage = LastAgentText(DataSpacePayloads(locals.events, TRUE))
           /\ terminated(locals.events) \o locals.buffer = SubSeq(body, 1, locals.pos)
           /\ pc = "done" => locals.cause = (IF locals.lastMessage # <<>> THEN "none"
                                             ELSE "no agent message")

\* an agent message, a line that is no JSON, and a later agent message that is
\* the reply
C16_Witness ==
    /\ RealReply
    /\ locals.events = << <<"data:", Space, "A1", NL>> \o BadLine \o <<NL, "data:", Space, "A2">> >>
    /\ outcome.value.message = <<"beta">>

\* C17 as stated: once a `data: [DONE]` line has been read, no later data line,
\* in the same event or in a later one, changes lastMessage.
C17_FinalAfterDone ==
    (Reading /\ \E i \in DOMAIN linesOf(locals.events, FALSE) :
                    linesOf(locals.events, FALSE)[i] = DoneLine)
        => locals.lastMessage =
              LastAgentText([i \in DOMAIN beforeDone(linesOf(locals.events, FALSE)) |->
                                payloadAfterDataSpace(beforeDone(linesOf(locals.events, FALSE))[i])])

(***************************************************************************)
(* Claims about the session lookup of sendMessage (SpecSend)               *)
(***************************************************************************)
PostsInLog == {i \in DOMAIN reqLog : reqLog[i].by = "sendMessage"}

\* C18: the A2A POST is the second request of the call, issued after the session
\* request is no longer in flight and getSession gave a session; when the lookup
\* rejects or yields null the call issues no A2A POST.
C18_PostOnlyAfterSession ==
    method = "sendMessage"
        => /\ PostsInLog \subseteq {2}
           /\ Len(reqLog) >= 1 => reqLog[1].by = "request"
           /\ PostsInLog # {} => \A r \in pending : r.by = "sendMessage"
           /\ pc = "fetch" => (PostsInLog = {2} /\ locals.session.t = "object")
           /\ (pc = "done" /\ locals.cause \in {"session lookup rejects",
                                                "session lookup yields null"})
                 => (PostsInLog = {} /\ Len(reqLog) = 1)

C18_Witness ==
    /\ Done("sendMessage")
    /\ locals.cause = "session lookup yields null"
    /\ Len(reqLog) = 1
    /\ reqLog[1].by = "request"

(***************************************************************************)
(* Claims about getSession (SpecApi)                                       *)
(***************************************************************************)
\* the request failed because the server answered with HTTP status 404
Answered404(res) ==
    /\ res.kind = "reject"
    /\ \/ (Len(res.value.message) >= 3 /\ res.value.message[2] = "HTTP error! status: "
                                       /\ res.value.message[3] = "404")
       \/ res.value.message = <<"Network error: ", "HTTP ", "404">>

\* C19 as stated: the session for {data:{session}} and {data:{id}}, null for any
\* other successful envelope; after a failed request the mock session for a
\* 'mock-session-' id, else null if and only if the server answered 404, else
\* a rejection.
C19_GetSessionOutcomes ==
    Done("getSession")
        => IF locals.res.kind = "resolve"
           THEN LET data == Get(locals.res.value, "data")
                IN IF data.t = "object" /\ Get(data, "session").t = "object"
                   THEN outcome = Resolve(Get(data, "session"))
                   ELSE IF data.t = "object" /\ Truthy(Get(data, "id"))
                   THEN outcome = Resolve(data)
                   ELSE outcome = Resolve(Null)
           ELSE IF isMockSessionId(args.sessionId)
           THEN /\ outcome.kind = "resolve"
                /\ Get(outcome.value, "id") = Str(args.sessionId)
                /\ Get(outcome.value, "agent_ref") = Str(<<"k8s-agent">>)
           ELSE IF Answered404(locals.res) THEN outcome = Resolve(Null)
           ELSE outcome.kind = "reject"

(***************************************************************************)
(* Claims about the failures of request() (SpecApi)                        *)
(***************************************************************************)
\* the message of the failure the transport reported
OriginalMessage(out) ==
    CASE out.kind = "error" -> out.text
      [] out.kind = "neterr" -> <<"Failed to fetch">>
      [] out.kind = "badjson" -> <<"Unexpected token < in JSON">>
      [] out.kind = "status" -> <<"HTTP error! status: ", out.status, ", message: ">> \o out.text

ReportsAccepted(item) ==
    LET cs == conditionsOf(item)
    IN IsArray(cs) /\ \E i \in DOMAIN cs.v : cs.v[i] = Cond("Accepted", "True")

\* C22 as stated: accepted is true with an Accepted/True condition or without
\* reported conditions, and false when conditions are reported and none of
\* them is Accepted/True.
C22_AcceptedMirrorsStatus ==
    (Done("getAgents") /\ outcome.kind = "resolve" /\ locals.res.kind = "resolve"
        /\ ~MalformedEnvelope(locals.res.value))
        => \A i \in DOMAIN outcome.value :
              LET item == EnvelopeList(locals.res.value)[i]
              IN outcome.value[i].accepted
                    <=> (ReportsAccepted(item) \/ ~IsArray(conditionsOf(item)))

(***************************************************************************)
(* Claims about the A2A target of sendMessage (SpecSend)                   *)
(***************************************************************************)
\* text ends with suffix
EndsWith(text, suffix) ==
    Len(text) >= Len(suffix)
    /\ SubSeq(text, Len(text) - Len(suffix) + 1, Len(text)) = suffix

\* every '_' of the text replaced by '-'
Dashed(text) ==
    [i \in DOMAIN text |-> IF text[i] = "_" THEN "-"
                           ELSE IF text[i] = "__NS__" THEN "--NS--" ELSE text[i]]

\* `<namespace>/<agentName>/` as the claim derives it from a session
TargetPath(session) ==
    LET present == session.t = "object" /\ "agent_id" \in DOMAIN session.v
                   /\ session.v.agent_id.t = "string" /\ session.v.agent_id.v # <<>>
        id == session.v.agent_id.v
        seps == {i \in DOMAIN id : id[i] = "__NS__"}
        sep == CHOOSE i \in seps : TRUE
    IN IF ~present THEN <<"kagent", "/", "k8s-agent", "/">>
       ELSE IF Cardinality(seps) = 1
       THEN SubSeq(id, 1, sep - 1) \o <<"/">> \o Dashed(SubSeq(id, sep + 1, Len(id))) \o <<"/">>
       ELSE <<"kagent", "/">> \o Dashed(id) \o <<"/">>

\* C23: the A2A POST addresses /a2a/<namespace>/<agentName>/ with namespace and
\* agent name derived from session.agent_id: two '__NS__' parts give the first
\* part unchanged and the second with '_' as '-'; any other number of parts
\* gives 'kagent' and the whole agent_id with '_' as '-'; without an agent_id
\* the target is kagent/k8s-agent, whatever agent_ref is.
C23_TargetFromAgentId ==
    (method = "sendMessage" /\ pc = "fetch")
        => \A r \in pending : EndsWith(r.url, <<"/a2a", "/">> \o TargetPath(locals.session))

C23_Witness ==
    /\ method = "sendMessage"
    /\ pc = "fetch"
    /\ Get(locals.session, "agent_id") = Str(<<"my", "_", "ns", "__NS__", "a", "_", "b", "_", "c">>)
    /\ \E r \in pending : EndsWith(r.url, <<"/a2a", "/", "my", "_", "ns", "/", "a", "-", "b", "-", "c", "/">>)

(***************************************************************************)
(* Claims about the query string of request URLs (SpecApi)                 *)
(***************************************************************************)
\* the positions of the '?' characters of a URL
QuestionMarks(url) == {i \in DOMAIN url : url[i] \in {"?", "?user_id="}}

\* C24 as stated: a URL built without a custom base URL holds exactly one '?'
\* and user_id as a parameter of its own; a URL built with the khook base URL
\* carries no user_id.
C24_WellFormedQuery ==
    \A k \in DOMAIN reqLog :
        reqLog[k].by = "request"
            => IF method \in HookCallers
               THEN \A i \in DOMAIN reqLog[k].url : reqLog[k].url[i] # "?user_id="
               ELSE /\ Cardinality(QuestionMarks(reqLog[k].url)) = 1
                    /\ \E i \in DOMAIN reqLog[k].url : reqLog[k].url[i] = "?user_id="

(***************************************************************************)
(* Claims about handleSendMessage and the chat messages (SpecApp)          *)
(***************************************************************************)
\* the guard of handleSendMessage passes
GuardPasses == Truthy(currentSession) /\ Truthy(selectedAgent) /\ currentConnectorAPI

\* C25: a handleSendMessage call starts a request only when its guard passes, and
\* it then appends the user message in the same step and sets isSendingMessage;
\* the completion of that request appends exactly one message, with role
\* 'assistant' and the session id of the call, and sets isSendingMessage to
\* false, whatever sendMessage answered; no other step appends a message.
C25_UserThenOneAssistantThenIdle ==
    [][ /\ \A s \in SendsInFlight' \ SendsInFlight :
             /\ GuardPasses
             /\ s.sessionId = Get(currentSession, "id")
             /\ chatMessages' = Append(chatMessages,
                                       ChatMessage(s.id, "user", s.message, s.sessionId))
             /\ isSendingMessage'
        /\ \A s \in SendsInFlight \ SendsInFlight' :
             /\ SendsInFlight' = SendsInFlight \ {s}
             /\ Len(chatMessages') = Len(chatMessages) + 1
             /\ SubSeq(chatMessages', 1, Len(chatMessages)) = chatMessages
             /\ chatMessages'[Len(chatMessages')].role = "assistant"
             /\ chatMessages'[Len(chatMessages')].sessionId = s.sessionId
             /\ chatMessages'[Len(chatMessages')].content # <<>>
             /\ ~isSendingMessage'
        /\ SendsInFlight' = SendsInFlight => Len(chatMessages') <= Len(chatMessages)
      ]_vars

\* two calls have run to their end: user and assistant message of each
C25_Witness ==
    /\ SendsInFlight = {}
    /\ ~isSendingMessage
    /\ Len(chatMessages) = 4
    /\ chatMessages[1].role = "user"
    /\ chatMessages[2].role = "user"
    /\ chatMessages[3].role = "assistant"
    /\ chatMessages[4].role = "assistant"

\* C26 as stated: every message of chatMessages has the session id of
\* currentSession, and chatMessages is empty while currentSession is null.
C26_MessagesOfCurrentSession ==
    IF Nullish(currentSession)
    THEN chatMessages = <<>>
    ELSE \A i \in DOMAIN chatMessages : chatMessages[i].sessionId = Get(currentSession, "id")

(***************************************************************************)
(* Claims about the connectors (SpecConnectors)                            *)
(***************************************************************************)
ConnectorIds(list) == {list[i].id : i \in DOMAIN list}

\* the list is not empty and activeConnector is the id of one of its connectors
ActiveIsListed(list, active) ==
    /\ Len(list) >= 1
    /\ active.t = "string"
    /\ active.v \in ConnectorIds(list)

\* C27: after mount the connector list is never empty and activeConnector is
\* the id of a connector of the list; a step that removes connectors removes
\* those of one id and keeps the others in order; when the active one is
\* removed the first remaining connector becomes active, otherwise
\* activeConnector is unchanged; adding a connector leaves it unchanged as well.
C27_ActiveConnectorListed ==
    /\ ActiveIsListed(connectors, activeConnector)
    /\ [][ /\ ActiveIsListed(connectors', activeConnector')
           /\ LET removed == ConnectorIds(connectors) \ ConnectorIds(connectors')
                  kept(c) == c.id \notin removed
              IN removed # {}
                   => /\ Cardinality(removed) = 1
                      /\ connectors' = SelectSeq(connectors, kept)
                      /\ activeConnector' = IF activeConnector.v \in removed
                                            THEN Str(connectors'[1].id)
                                            ELSE activeConnector
           /\ Len(connectors') > Len(connectors) => activeConnector' = activeConnector
         ]_vars

\* the default connector was removed while it was the active one
C27_Witness ==
    /\ Len(connectors) = 2
    /\ <<"default">> \notin ConnectorIds(connectors)
    /\ activeConnector = Str(connectors[1].id)
    /\ clock = MaxAdds

\* C28: the completion of a connectToConnector call changes the connector of
\* its id only: to connected with the agents getAgents resolved to, or to not
\* connected with the error message and the agents it had; the other
\* connectors, the order of the list and activeConnector stay as they are, and
\* with no connector of that id in the list the list is unchanged.
C28_CompletionChangesOwnConnector ==
    [][ \A s \in ConnectsInFlight \ ConnectsInFlight' :
          /\ activeConnector' = activeConnector
          /\ DOMAIN connectors' = DOMAIN connectors
          /\ \A i \in DOMAIN connectors :
               IF connectors[i].id = s.id
               THEN /\ connectors'[i].id = s.id
                    /\ \E r \in ConnectReplies :
                         IF r.kind = "resolve"
                         THEN /\ connectors'[i].agents = r.value
                              /\ connectors'[i].status = [connected |-> TRUE]
                         ELSE /\ connectors'[i].agents = connectors[i].agents
                              /\ connectors'[i].status = [connected |-> FALSE,
                                                          error |-> r.value.message]
               ELSE connectors'[i] = connectors[i]
          /\ s.id \notin ConnectorIds(connectors) => connectors' = connectors
      ]_vars

\* one connector is connected and has agents, one has failed and kept the agents
\* of an earlier success, and the call for a removed connector is in flight
C28_Witness ==
    /\ \E i \in DOMAIN connectors :
         connectors[i].status = [connected |-> TRUE] /\ connectors[i].agents # <<>>
    /\ \E i \in DOMAIN connectors :
         /\ connectors[i].status.connected = FALSE
         /\ "error" \in DOMAIN connectors[i].status
         /\ connectors[i].agents # <<>>
    /\ \E s \in ConnectsInFlight : s.id \notin ConnectorIds(connectors)

====
